---- MODULE Spec2Model ----
(***************************************************************************)
(* A model of the coding-theory library: polynomials over GF(2) packed in  *)
(* a u32 (galois/src/poly_gf2.rs), the fields GF(2^M) built on them        *)
(* (galois/src/gf2tm.rs), the binary BCH codec (bch/src/lib.rs), the       *)
(* Reed-Solomon codec (reed_solomon/src/lib.rs) and their concatenation    *)
(* (concatenated_code/src/lib.rs).                                         *)
(*                                                                         *)
(* The library is a set of pure functions over value objects.  The state   *)
(* of the model is the call in progress: the last algebra call with its    *)
(* result, and for the codecs the pipeline message -> encoded -> received  *)
(* -> decoded.                                                             *)
(***************************************************************************)
EXTENDS Integers, Sequences, FiniteSets, TLC

VARIABLES
    call,       \* the last PolyGF2 call: its name, its inputs and its result
    codec,      \* the codec in use (BCH<M>, ReedSolomon<M> or ConcatenatedCode<M,N>)
    message,    \* the message handed to encode
    encoded,    \* what encode returned
    received,   \* the word handed to decode
    decoded     \* what decode returned

vars == <<call, codec, message, encoded, received, decoded>>

(***************************************************************************)
(* Bounds of the model.                                                    *)
(***************************************************************************)
\* PolyGF2 operands of the divmod calls range over 0..MaxPoly.
MaxPoly == 63
\* irreducible() is called with degrees 1..MaxIrrDegree.
MaxIrrDegree == 7
\* BCH messages range over 0..MaxMessage.
MaxMessage == 35
\* The channel flips at most MaxBitErrors bits of a BCH codeword.
MaxBitErrors == 3
\* Words handed to BCH decode without an encode range over 0..MaxWord.
MaxWord == 255
\* Reed-Solomon messages have 1..MaxRSLen symbols, each in 0..MaxRSSymbol.
MaxRSLen == 3
MaxRSSymbol == 4
\* Concatenated-code messages have 1..MaxCCLen symbols, each in 0..MaxCCSymbol.
MaxCCLen == 2
MaxCCSymbol == 5
\* The channel alters at most MaxAlteredWords inner codewords, flipping
\* 1..MaxInnerErrors bits of each.
MaxAlteredWords == 1
MaxInnerErrors == 1

(***************************************************************************)
(* Machine words.  PolyGF2 holds a u32; the bit operations of the source   *)
(* are defined on the naturals below 2^WordBits.                           *)
(***************************************************************************)
WordBits == 32

None == [tag |-> "None"]
Ok(v) == [tag |-> "Ok", val |-> v]
Err(e) == [tag |-> "Err", val |-> e]
Panic(e) == [tag |-> "Panic", val |-> e]
\* A word on its way to decode.
Word(w) == [tag |-> "Word", val |-> w]

RECURSIVE BitXor(_, _)
BitXor(a, b) ==
    IF a = 0 THEN b
    ELSE IF b = 0 THEN a
    ELSE ((a + b) % 2) + 2 * BitXor(a \div 2, b \div 2)

RECURSIVE BitAnd(_, _)
BitAnd(a, b) ==
    IF a = 0 \/ b = 0 THEN 0
    ELSE ((a % 2) * (b % 2)) + 2 * BitAnd(a \div 2, b \div 2)

RECURSIVE BitLen(_)
BitLen(x) == IF x = 0 THEN 0 ELSE 1 + BitLen(x \div 2)

\* u32::leading_zeros
leading_zeros(x) == WordBits - BitLen(x)

\* x << s on a u32: the bits shifted past the word are dropped.
Shl(x, s) ==
    IF BitLen(x) + s < WordBits THEN x * 2^s
    ELSE (x % 2^(WordBits - s)) * 2^s

\* x >> s
Shr(x, s) == x \div 2^s

\* A vector given by its elements, all of them computed.
Vec(f) == f \o <<>>

\* next, once v is computed: the loops of the source compute the value of an
\* iteration before they start the next one.
Then(v, next) == IF v = v THEN next ELSE next

(***************************************************************************)
(* PolyGF2: polynomials over GF(2), bit i the coefficient of x^i.          *)
(***************************************************************************)
PolyGF2_add(a, b) == BitXor(a, b)

PolyGF2_sub(a, b) == PolyGF2_add(a, b)

PolyGF2_neg(a) == PolyGF2_sub(0, a)

RECURSIVE PolyGF2_mul_loop(_, _, _)
PolyGF2_mul_loop(result, a, b) ==
    Then(<<result, a>>,
         IF b > 0
         THEN PolyGF2_mul_loop(IF b % 2 > 0 THEN BitXor(result, a) ELSE result,
                               IF b \div 2 > 0 THEN Shl(a, 1) ELSE a,
                               b \div 2)
         ELSE result)

PolyGF2_mul(a, b) == PolyGF2_mul_loop(0, a, b)

\* The loop of divmod with "<" for "<=": it stops one step early.
RECURSIVE PolyGF2_divmod_loop_early(_, _, _)
PolyGF2_divmod_loop_early(quotient, remainder, divisor) ==
    IF remainder # 0 /\ leading_zeros(remainder) < leading_zeros(divisor)
    THEN LET shift == leading_zeros(divisor) - leading_zeros(remainder)
         IN  PolyGF2_divmod_loop_early(BitXor(quotient, Shl(1, shift)),
                                       BitXor(remainder, Shl(divisor, shift)),
                                       divisor)
    ELSE [tag |-> "Ok", q |-> quotient, r |-> remainder]

RECURSIVE PolyGF2_divmod_loop(_, _, _)
PolyGF2_divmod_loop(quotient, remainder, divisor) ==
    IF remainder # 0 /\ leading_zeros(remainder) <= leading_zeros(divisor)
    THEN LET shift == leading_zeros(divisor) - leading_zeros(remainder)
         IN  PolyGF2_divmod_loop(BitXor(quotient, Shl(1, shift)),
                                 BitXor(remainder, Shl(divisor, shift)),
                                 divisor)
    ELSE [tag |-> "Ok", q |-> quotient, r |-> remainder]

PolyGF2_divmod(a, b) ==
    IF b = 0 THEN Panic("division by zero")
    ELSE PolyGF2_divmod_loop(0, a, b)

PolyGF2_div(a, b) == PolyGF2_divmod(a, b).q

PolyGF2_rem(a, b) == PolyGF2_divmod(a, b).r

\* (leading_zeros ^ 31) as usize
PolyGF2_degree(a) == BitXor(leading_zeros(a), 31)

\* The trial division of irreducible() starting at 3: the divisor x is skipped.
PolyGF2_has_divisor_from3(poly, degree) ==
    \E i \in 3 .. (2^degree - 1) : PolyGF2_rem(poly, i) = 0

\* The inner loop of irreducible(): some i in 2..(1 << degree) divides poly.
PolyGF2_has_divisor(poly, degree) ==
    \E i \in 2 .. (2^degree - 1) : PolyGF2_rem(poly, i) = 0

RECURSIVE PolyGF2_irreducible_from(_, _)
PolyGF2_irreducible_from(poly, degree) ==
    IF poly > 2^(degree + 1) THEN 0
    ELSE IF ~PolyGF2_has_divisor(poly, degree) THEN poly
    ELSE PolyGF2_irreducible_from(poly + 1, degree)

PolyGF2_irreducible(degree) == PolyGF2_irreducible_from(2^degree, degree)

RECURSIVE PolyGF2_gcd(_, _)
PolyGF2_gcd(a, b) ==
    IF b # 0 THEN PolyGF2_gcd(b, PolyGF2_rem(a, b)) ELSE a

\* PolyGF2 / PolyGF2: divmod panics on a zero divisor.
PolyGF2_try_div(a, b) ==
    IF b = 0 THEN Panic("division by zero") ELSE Ok(PolyGF2_div(a, b))

\* self * rhs / gcd
PolyGF2_lcm(a, b) == PolyGF2_try_div(PolyGF2_mul(a, b), PolyGF2_gcd(a, b))

(***************************************************************************)
(* GF2TM<M>: the elements of GF(2^M).  An element is its value, a PolyGF2; *)
(* its irr field is irreducible(M) in every constructor.                   *)
(***************************************************************************)
\* The largest M of the fields in use.
MaxFieldDegree == 8

\* irreducible(M), computed once for the degrees in use.
IrrTable == Vec([M \in 1 .. MaxFieldDegree |-> PolyGF2_irreducible(M)])

GF2TM_irr(M) == IrrTable[M]

\* GF2TM::new: value % PolyGF2::new(1 << M)
GF2TM_new(M, value) == PolyGF2_rem(value, 2^M)

\* From<u32>: the value is stored as given.
GF2TM_from(M, poly) == poly

GF2TM_zero == 0

GF2TM_one == 1

\* impl Add / Sub / Mul for GF2TM, as written.
GF2TM_add_direct(M, a, b) == PolyGF2_rem(PolyGF2_add(a, b), GF2TM_irr(M))

GF2TM_sub_direct(M, a, b) == PolyGF2_rem(PolyGF2_sub(a, b), GF2TM_irr(M))

\* The product reduced by x^M, not by the irreducible polynomial.
GF2TM_mul_mod_xM(M, a, b) == PolyGF2_rem(PolyGF2_mul(a, b), 2^M)

GF2TM_mul_direct(M, a, b) == PolyGF2_rem(PolyGF2_mul(a, b), GF2TM_irr(M))

\* The sums, differences and products of the canonical elements (value < 2^M)
\* of the fields up to GF(2^MaxTabulated), computed once with the operators
\* above; the entry for (a, b) in GF(2^M) is [M][a + 1][b + 1].
MaxTabulated == 4

GF2TM_add_table ==
    Vec([M \in 1 .. MaxTabulated |-> Vec([i \in 1 .. 2^M |-> Vec([j \in 1 .. 2^M |->
        GF2TM_add_direct(M, i - 1, j - 1)])])])

GF2TM_sub_table ==
    Vec([M \in 1 .. MaxTabulated |-> Vec([i \in 1 .. 2^M |-> Vec([j \in 1 .. 2^M |->
        GF2TM_sub_direct(M, i - 1, j - 1)])])])

GF2TM_mul_table ==
    Vec([M \in 1 .. MaxTabulated |-> Vec([i \in 1 .. 2^M |-> Vec([j \in 1 .. 2^M |->
        GF2TM_mul_direct(M, i - 1, j - 1)])])])

GF2TM_add(M, a, b) ==
    IF M <= MaxTabulated /\ a < 2^M /\ b < 2^M
    THEN GF2TM_add_table[M][a + 1][b + 1]
    ELSE GF2TM_add_direct(M, a, b)

GF2TM_sub(M, a, b) ==
    IF M <= MaxTabulated /\ a < 2^M /\ b < 2^M
    THEN GF2TM_sub_table[M][a + 1][b + 1]
    ELSE GF2TM_sub_direct(M, a, b)

GF2TM_mul(M, a, b) ==
    IF M <= MaxTabulated /\ a < 2^M /\ b < 2^M
    THEN GF2TM_mul_table[M][a + 1][b + 1]
    ELSE GF2TM_mul_direct(M, a, b)

GF2TM_neg(M, a) == PolyGF2_neg(a)

\* The iterations lo..hi of the loop of pow (result *= self), applied to
\* result; a run of iterations is its first half followed by its second.
RECURSIVE GF2TM_pow_loop(_, _, _, _, _)
GF2TM_pow_loop(M, result, a, lo, hi) ==
    Then(result,
         IF lo > hi THEN result
         ELSE IF lo = hi THEN GF2TM_mul(M, result, a)
         ELSE GF2TM_pow_loop(M, GF2TM_pow_loop(M, result, a, lo, (lo + hi) \div 2),
                             a, (lo + hi) \div 2 + 1, hi))

GF2TM_pow(M, a, exp) == GF2TM_pow_loop(M, GF2TM_new(M, 1), a, 1, exp)

GF2TM_inv(M, a) == GF2TM_pow(M, a, 2^M - 2)

GF2TM_div(M, a, b) == GF2TM_mul(M, a, GF2TM_inv(M, b))

\* is_primitive: powers is the product an iteration has just computed, left
\* the iterations after it; the last product is the one after the loop.
\* is_primitive without the early return: only the last product is tested.
GF2TM_is_primitive_last(M, a) == GF2TM_pow(M, a, 2^M - 1) = 1

RECURSIVE GF2TM_is_primitive_loop(_, _, _, _)
GF2TM_is_primitive_loop(M, powers, a, left) ==
    IF left = 0 THEN powers = 1
    ELSE IF powers = 1 THEN FALSE
    ELSE GF2TM_is_primitive_loop(M, GF2TM_mul(M, powers, a), a, left - 1)

GF2TM_is_primitive(M, a) ==
    GF2TM_is_primitive_loop(M, GF2TM_mul(M, 1, a), a, (2^M - 1) - 1)

RECURSIVE GF2TM_primitive_element_from(_, _)
GF2TM_primitive_element_from(M, candidate) ==
    IF candidate >= 2^M THEN Panic("unreachable")
    ELSE IF GF2TM_is_primitive(M, GF2TM_new(M, candidate))
    THEN Ok(GF2TM_new(M, candidate))
    ELSE GF2TM_primitive_element_from(M, candidate + 1)

GF2TM_primitive_element(M) == GF2TM_primitive_element_from(M, 1)

(***************************************************************************)
(* Polynomial<GF2TM<M>>: the polynomial container of the external crates   *)
(* (polynomial, poly_it), a coefficient vector with index 0 the constant   *)
(* term.  Coefficient i of the source is element i + 1 of the sequence.    *)
(***************************************************************************)
\* Polynomial::new strips the trailing zero coefficients.
RECURSIVE Polynomial_new(_)
Polynomial_new(data) ==
    IF Len(data) > 0 /\ data[Len(data)] = 0
    THEN Polynomial_new(SubSeq(data, 1, Len(data) - 1))
    ELSE data

\* Polynomial::eval: Horner's rule from the highest coefficient down.
RECURSIVE Polynomial_eval_from(_, _, _, _, _)
Polynomial_eval_from(M, data, x, i, result) ==
    Then(result,
         IF i = 0 THEN result
         ELSE Polynomial_eval_from(M, data, x, i - 1,
                                   GF2TM_add(M, data[i], GF2TM_mul(M, result, x))))

Polynomial_eval(M, data, x) == Polynomial_eval_from(M, data, x, Len(data), GF2TM_zero)

\* Coefficient i (from 1) of the product: the convolution sum.
RECURSIVE Polynomial_mul_coeff(_, _, _, _, _)
Polynomial_mul_coeff(M, p, q, i, k) ==
    IF k > Len(p) \/ k > i THEN GF2TM_zero
    ELSE IF i + 1 - k > Len(q) THEN Polynomial_mul_coeff(M, p, q, i, k + 1)
    ELSE GF2TM_add(M, GF2TM_mul(M, p[k], q[i + 1 - k]),
                   Polynomial_mul_coeff(M, p, q, i, k + 1))

Polynomial_mul(M, p, q) ==
    IF Len(p) = 0 \/ Len(q) = 0 THEN <<>>
    ELSE Polynomial_new(Vec([i \in 1 .. (Len(p) + Len(q) - 1) |->
                                Polynomial_mul_coeff(M, p, q, i, 1)]))

\* Polynomial / Polynomial: long division by the leading coefficient of the
\* divisor, one step per quotient coefficient from the highest (index s + 1)
\* down, giving (quotient, remainder).
RECURSIVE Polynomial_div_from(_, _, _, _, _)
RECURSIVE Polynomial_div_step(_, _, _, _, _, _)
Polynomial_div_from(M, rem, den, s, quot) ==
    Then(<<rem, quot>>,
         IF s < 0 THEN [q |-> Polynomial_new(quot), r |-> Polynomial_new(rem)]
         ELSE Polynomial_div_step(M, rem, den, s, quot,
                                  GF2TM_div(M, rem[s + Len(den)], den[Len(den)])))

\* The step with quotient coefficient c: c * den * x^s leaves the remainder.
Polynomial_div_step(M, rem, den, s, quot, c) ==
    Polynomial_div_from(M,
        Vec([j \in 1 .. Len(rem) |->
                IF j - s \in 1 .. Len(den)
                THEN GF2TM_sub(M, rem[j], GF2TM_mul(M, c, den[j - s]))
                ELSE rem[j]]),
        den, s - 1,
        Vec([j \in 1 .. Len(quot) |-> IF j = s + 1 THEN c ELSE quot[j]]))

Polynomial_div(M, num, den) ==
    IF Len(den) = 0 THEN Panic("division by zero")
    ELSE IF Len(num) < Len(den) THEN [q |-> <<>>, r |-> num]
    ELSE Polynomial_div_from(M, num, den, Len(num) - Len(den),
                             Vec([j \in 1 .. (Len(num) - Len(den) + 1) |-> GF2TM_zero]))

\* From<Polynomial<GF2TM<M>>> for PolyGF2: the low bit of each coefficient,
\* the highest coefficient first.
RECURSIVE PolyGF2_from_polynomial_fold(_, _, _)
PolyGF2_from_polynomial_fold(data, i, acc) ==
    Then(acc,
         IF i = 0 THEN acc
         ELSE PolyGF2_from_polynomial_fold(data, i - 1,
                                           Shl(acc, 1) + BitAnd(data[i], 1)))

PolyGF2_from_polynomial(data) == PolyGF2_from_polynomial_fold(data, Len(data), 0)

\* The fold of minimal_poly over the set of conjugates.
RECURSIVE GF2TM_minimal_poly_fold(_, _, _)
GF2TM_minimal_poly_fold(M, conjugates, acc) ==
    IF conjugates = {} THEN acc
    ELSE LET c == CHOOSE x \in conjugates : TRUE
         IN  GF2TM_minimal_poly_fold(M, conjugates \ {c},
                 Polynomial_mul(M, acc, Polynomial_new(<<c, GF2TM_one>>)))

\* minimal_poly with the last conjugate a^(2^(M-1)) left out of the product.
GF2TM_minimal_poly_short(M, a) ==
    PolyGF2_from_polynomial(
        GF2TM_minimal_poly_fold(M, {GF2TM_pow(M, a, 2^i) : i \in 0 .. (M - 2)},
                                Polynomial_new(<<GF2TM_one>>)))

GF2TM_minimal_poly(M, a) ==
    PolyGF2_from_polynomial(
        GF2TM_minimal_poly_fold(M, {GF2TM_pow(M, a, 2^i) : i \in 0 .. (M - 1)},
                                Polynomial_new(<<GF2TM_one>>)))

(***************************************************************************)
(* Matrix<GF2TM<M>>: a dense matrix held as the sequence of its rows.      *)
(* galois/src/matrix.rs is not among the sources; determinant and solve    *)
(* follow the specification: Gaussian elimination with row swaps, solve    *)
(* giving the unique solution or nothing when no pivot is found.           *)
(***************************************************************************)
\* The first row at or below col with a non-zero entry in column col, or 0.
Matrix_pivot_row(rows, col) ==
    LET candidates == {r \in col .. Len(rows) : rows[r][col] # 0}
    IN  IF candidates = {} THEN 0
        ELSE CHOOSE r \in candidates : \A o \in candidates : r <= o

Matrix_swap(rows, i, j) ==
    Vec([r \in 1 .. Len(rows) |-> IF r = i THEN rows[j] ELSE IF r = j THEN rows[i] ELSE rows[r]])

\* The row times a factor.
Matrix_scale_row(M, row, factor) ==
    Vec([j \in 1 .. Len(row) |-> GF2TM_mul(M, row[j], factor)])

\* prow, with a leading 1 in column col, is subtracted from every other row.
Matrix_clear_column(M, rows, col, prow) ==
    Vec([r \in 1 .. Len(rows) |->
            IF r = col THEN prow
            ELSE Vec([j \in 1 .. Len(rows[r]) |->
                     GF2TM_sub(M, rows[r][j], GF2TM_mul(M, rows[r][col], prow[j]))])])

\* One elimination step: the pivot row is scaled to a leading 1 and
\* subtracted from every other row.
Matrix_reduce(M, rows, col) ==
    Matrix_clear_column(M, rows, col,
        Matrix_scale_row(M, rows[col], GF2TM_inv(M, rows[col][col])))

\* Gauss-Jordan elimination of the first n columns; det is the product of
\* the pivots, zero when a column has no pivot.
RECURSIVE Matrix_eliminate(_, _, _, _, _)
Matrix_eliminate(M, rows, col, n, det) ==
    Then(<<rows, det>>,
         IF col > n THEN [det |-> det, rows |-> rows]
         ELSE LET p == Matrix_pivot_row(rows, col)
              IN  IF p = 0 THEN [det |-> GF2TM_zero, rows |-> rows]
                  ELSE Matrix_eliminate(M, Matrix_reduce(M, Matrix_swap(rows, col, p), col),
                                        col + 1, n, GF2TM_mul(M, det, rows[p][col])))

Matrix_determinant(M, rows) ==
    Matrix_eliminate(M, rows, 1, Len(rows), GF2TM_one).det

\* The last column of the eliminated augmented matrix, or None (singular).
Matrix_solution(n, done) ==
    IF done.det = GF2TM_zero THEN None
    ELSE Ok(Vec([r \in 1 .. n |-> done.rows[r][n + 1]]))

Matrix_solve(M, rows, rhs) ==
    Matrix_solution(Len(rows),
        Matrix_eliminate(M, Vec([r \in 1 .. Len(rows) |-> rows[r] \o <<rhs[r]>>]),
                         1, Len(rows), GF2TM_one))

(***************************************************************************)
(* BCH<M>: the binary BCH codec.                                           *)
(***************************************************************************)
\* (1..distance).map(|i| alpha.pow(i).minimal_poly()).reduce(|acc, e| acc.lcm(e))
RECURSIVE BCH_generator_fold(_, _, _, _, _)
BCH_generator_fold(M, alpha, i, distance, acc) ==
    Then(acc,
         IF i >= distance THEN acc
         ELSE BCH_generator_fold(M, alpha, i + 1, distance,
                  PolyGF2_lcm(acc, GF2TM_minimal_poly(M, GF2TM_pow(M, alpha, i))).val))

\* The struct BCH, message_length = code_length - generator_poly.degree().
BCH_struct(M, primitive_element, distance, code_length, generator_poly) ==
    [kind |-> "BCH",
     M |-> M,
     primitive_element |-> primitive_element,
     distance |-> distance,
     code_length |-> code_length,
     message_length |-> code_length - PolyGF2_degree(generator_poly),
     generator_poly |-> generator_poly]

\* from_max_errors, once the primitive element is found.  The range
\* 1..distance is empty for distance = 1: reduce gives None and unwrap panics.
BCH_from_primitive_element(M, distance, primitive_element) ==
    IF distance <= 1 THEN Panic("called Option::unwrap() on a None value")
    ELSE BCH_struct(M, primitive_element, distance, 2^M - 1,
             BCH_generator_fold(M, primitive_element, 2, distance,
                 GF2TM_minimal_poly(M, GF2TM_pow(M, primitive_element, 1))))

BCH_from_max_errors(M, max_errors) ==
    BCH_from_primitive_element(M, 2 * max_errors + 1, GF2TM_primitive_element(M).val)

\* (distance - 1) / 2 is usize arithmetic: distance = 0 panics (overflow
\* checks on).
BCH_from_distance(M, distance) ==
    IF distance < 1 THEN Panic("attempt to subtract with overflow")
    ELSE BCH_from_max_errors(M, (distance - 1) \div 2)

\* The padded message as it is, the remainder not subtracted.
BCH_codeword_padded(padded, generator_poly) == Ok(padded)

\* padded - padded % generator_poly
BCH_codeword(padded, generator_poly) ==
    Ok(PolyGF2_sub(padded, PolyGF2_rem(padded, generator_poly)))

BCH_encode(bch, msg) ==
    IF PolyGF2_degree(msg) + 1 > bch.message_length THEN Err("Message is too long")
    ELSE BCH_codeword(
             PolyGF2_mul(msg, Shl(1, bch.code_length - (PolyGF2_degree(msg) + 1))),
             bch.generator_poly)

\* error_locator: the largest v in t..1 whose v x v syndrome system has a
\* solution gives the locator [solution, 1]; None when there is none.
RECURSIVE BCH_error_locator_from(_, _, _)
RECURSIVE BCH_error_locator_try(_, _, _, _)
BCH_error_locator_from(M, syndromes, v) ==
    IF v < 1 THEN None
    ELSE BCH_error_locator_try(M, syndromes, v,
             Matrix_solve(M,
                 Vec([i \in 1 .. v |-> Vec([j \in 1 .. v |-> syndromes[i + j - 1]])]),
                 Vec([i \in 1 .. v |-> GF2TM_neg(M, syndromes[v + i])])))

\* if let Some(solution) = matrix.solve(right_part)
BCH_error_locator_try(M, syndromes, v, solution) ==
    IF solution # None
    THEN Ok(Polynomial_new(Append(solution.val, GF2TM_one)))
    ELSE BCH_error_locator_from(M, syndromes, v - 1)

BCH_error_locator(bch, syndromes) ==
    BCH_error_locator_from(bch.M, syndromes, Len(syndromes) \div 2)

\* chien_search: the positions i in 0..code_length where the locator vanishes
\* at alpha^i.
BCH_chien_search(bch, error_locator) ==
    {i \in 0 .. (bch.code_length - 1) :
        Polynomial_eval(bch.M, error_locator,
                        GF2TM_pow(bch.M, bch.primitive_element, i)) = GF2TM_zero}

\* error_positions.iter().fold(0, |acc, e| acc ^ (1u32 << e))
RECURSIVE BCH_error_values(_)
BCH_error_values(error_positions) ==
    IF error_positions = {} THEN 0
    ELSE LET e == CHOOSE x \in error_positions : TRUE
         IN  BitXor(BCH_error_values(error_positions \ {e}), Shl(1, e))

\* The length test of decode with ">" for "!=": short words pass.
BCH_wrong_length_above(bch, rcv) ==
    PolyGF2_degree(rcv) + 1 > bch.code_length

\* The length test of decode: received.degree() + 1 != code_length.
BCH_wrong_length(bch, rcv) ==
    PolyGF2_degree(rcv) + 1 # bch.code_length

\* The coefficients of the received word, bit i the coefficient of x^i.
BCH_coefficients(bch, rcv) ==
    Vec([i \in 1 .. bch.code_length |-> GF2TM_from(bch.M, BitAnd(Shr(rcv, i - 1), 1))])

\* (1..distance).map(|i| received_poly_gf2m.eval(alpha.pow(i)))
BCH_syndromes(bch, received_poly_gf2m) ==
    Vec([i \in 1 .. (bch.distance - 1) |->
            Polynomial_eval(bch.M, received_poly_gf2m,
                            GF2TM_pow(bch.M, bch.primitive_element, i))])

\* The error pattern of the locator, 0 without one.
BCH_error(bch, error_locator) ==
    IF error_locator # None
    THEN BCH_error_values(BCH_chien_search(bch, error_locator.val))
    ELSE 0

\* corrected = received.poly + error (an addition of u32), then the shift.
BCH_corrected(bch, rcv, error) ==
    Ok(Shr(rcv + error, PolyGF2_degree(bch.generator_poly)))

BCH_decode(bch, rcv) ==
    IF BCH_wrong_length(bch, rcv)
    THEN Err("Received message has wrong length")
    ELSE BCH_corrected(bch, rcv,
             BCH_error(bch,
                 BCH_error_locator(bch,
                     BCH_syndromes(bch, Polynomial_new(BCH_coefficients(bch, rcv))))))

(***************************************************************************)
(* ReedSolomon<M>: the evaluation code and its decoder.                    *)
(***************************************************************************)
ReedSolomon(M, distance) == [kind |-> "RS", M |-> M, distance |-> distance]

\* GF2TM::<M>::new(PolyGF2 { poly: i as u32 }), i counted from 1 here.
RS_point(rs, i) == GF2TM_new(rs.M, i - 1)

\* encode: message.eval(i) for i in 0..len + distance, then Polynomial::new.
RS_encode(rs, msg) ==
    Polynomial_new(Vec([i \in 1 .. (Len(msg) + rs.distance) |->
                           Polynomial_eval(rs.M, msg, RS_point(rs, i))]))

\* (self.distance - 1) / 2 in usize: distance = 0 panics (overflow checks on).
RS_max_num_of_errors(rs) ==
    IF rs.distance < 1 THEN Panic("attempt to subtract with overflow")
    ELSE (rs.distance - 1) \div 2

\* create_linear_system_with_err_num: row i holds c_i * i^j for j < e, then
\* -(i^j) for j < len - e; the right side is -(i^e * c_i).
RS_create_linear_system_with_err_num(rs, errors_num, enc) ==
    [lhs |-> Vec([i \in 1 .. Len(enc) |-> Vec([j \in 1 .. Len(enc) |->
                 IF j <= errors_num
                 THEN GF2TM_mul(rs.M, enc[i], GF2TM_pow(rs.M, RS_point(rs, i), j - 1))
                 ELSE GF2TM_neg(rs.M,
                          GF2TM_pow(rs.M, RS_point(rs, i), j - errors_num - 1))])]),
     rhs |-> Vec([i \in 1 .. Len(enc) |->
                 GF2TM_neg(rs.M,
                     GF2TM_mul(rs.M, GF2TM_pow(rs.M, RS_point(rs, i), errors_num),
                               enc[i]))])]

\* After the loop: result = a.solve(rhs).unwrap(), e_poly = [result[0..e], 1],
\* q_poly = result[e..], and the quotient q_poly / e_poly is returned.
RS_decode_divide(rs, e, solved) ==
    IF solved = None THEN Panic("called Option::unwrap() on a None value")
    ELSE Ok(Polynomial_div(rs.M,
                Polynomial_new(SubSeq(solved.val, e + 1, Len(solved.val))),
                Polynomial_new(Append(SubSeq(solved.val, 1, e), GF2TM_new(rs.M, 1)))).q)

\* The loop of decode: e counts down from t until the system is regular;
\* usize arithmetic below zero panics.
RECURSIVE RS_decode_from(_, _, _)
RECURSIVE RS_decode_try(_, _, _, _)
\* One pass of the loop that steps e down by two on a singular system.
RS_decode_try_by2(rs, enc, e, system) ==
    IF Matrix_determinant(rs.M, system.lhs) = GF2TM_zero
    THEN RS_decode_from(rs, enc, e - 2)
    ELSE RS_decode_divide(rs, e, Matrix_solve(rs.M, system.lhs, system.rhs))

RS_decode_from(rs, enc, e) ==
    IF e < 0 \/ Len(enc) < e THEN Panic("attempt to subtract with overflow")
    ELSE RS_decode_try(rs, enc, e, RS_create_linear_system_with_err_num(rs, e, enc))

\* One pass of the loop with the system (lhs, rhs) for e errors.
RS_decode_try(rs, enc, e, system) ==
    IF Matrix_determinant(rs.M, system.lhs) = GF2TM_zero
    THEN RS_decode_from(rs, enc, e - 1)
    ELSE RS_decode_divide(rs, e, Matrix_solve(rs.M, system.lhs, system.rhs))

RS_decode(rs, enc) ==
    IF rs.distance < 1 THEN RS_max_num_of_errors(rs)
    ELSE RS_decode_from(rs, enc, RS_max_num_of_errors(rs))

(***************************************************************************)
(* ConcatenatedCode<M, N>: an outer ReedSolomon<M> and an inner BCH<N>.    *)
(***************************************************************************)
ConcatenatedCode(M, N, outer_code, inner_code) ==
    [kind |-> "CC", M |-> M, N |-> N, outer_code |-> outer_code, inner_code |-> inner_code]

\* .unwrap() on every result of the inner codec: the values, or a panic.
CC_unwrap(results) ==
    IF \E i \in 1 .. Len(results) : results[i].tag = "Err"
    THEN Panic("called Result::unwrap() on an Err value")
    ELSE Ok(Vec([i \in 1 .. Len(results) |-> results[i].val]))

\* The inner encode of every letter plus PolyGF2 { 2^N }.
CC_encode_letters(cc, outer_encoded) ==
    CC_unwrap(Vec([i \in 1 .. Len(outer_encoded) |->
                      BCH_encode(cc.inner_code, PolyGF2_add(outer_encoded[i], 2^cc.N))]))

CC_encode(cc, msg) == CC_encode_letters(cc, RS_encode(cc.outer_code, msg))

\* GF2TM::<M>::new of every inner result, Polynomial::new, the outer decode.
CC_decode_outer(cc, inner_decoded) ==
    IF inner_decoded.tag = "Panic" THEN inner_decoded
    ELSE RS_decode(cc.outer_code,
             Polynomial_new(Vec([i \in 1 .. Len(inner_decoded.val) |->
                                    GF2TM_new(cc.M, inner_decoded.val[i])])))

CC_decode(cc, encoded_message) ==
    CC_decode_outer(cc,
        CC_unwrap(Vec([i \in 1 .. Len(encoded_message) |->
                          BCH_decode(cc.inner_code, encoded_message[i])])))

(***************************************************************************)
(* The PolyGF2 calls.  A behaviour is one call: the initial state holds    *)
(* its inputs, the action applies the function and stores what it returns. *)
(***************************************************************************)
Pending(fn, a, b) == [fn |-> fn, a |-> a, b |-> b, out |-> None]

NoCodec ==
    /\ codec = None
    /\ message = None
    /\ encoded = None
    /\ received = None
    /\ decoded = None

NoCall == Pending("none", 0, 0)

InitPoly ==
    /\ call \in {Pending("divmod", a, b) : a \in 0 .. MaxPoly, b \in 0 .. MaxPoly}
               \cup {Pending("irreducible", d, 0) : d \in 1 .. MaxIrrDegree}
    /\ NoCodec

Divmod ==
    /\ call.fn = "divmod"
    /\ call.out = None
    /\ call' = [call EXCEPT !.out = PolyGF2_divmod(call.a, call.b)]
    /\ UNCHANGED <<codec, message, encoded, received, decoded>>

Irreducible ==
    /\ call.fn = "irreducible"
    /\ call.out = None
    /\ call' = [call EXCEPT !.out = Ok(PolyGF2_irreducible(call.a))]
    /\ UNCHANGED <<codec, message, encoded, received, decoded>>

NextPoly == Divmod \/ Irreducible

SpecPoly == InitPoly /\ [][NextPoly]_vars

(***************************************************************************)
(* The BCH pipeline: a codec is constructed and a message chosen; encode;  *)
(* the channel flips bits of the codeword (the tests XOR an error pattern  *)
(* into it); decode.  Decode is also called on words that no encode made.  *)
(***************************************************************************)
\* The codecs <<M, distance>> of the model.
BCHCodecs == {<<3, 3>>, <<3, 5>>, <<4, 7>>}

\* The number of set bits.
RECURSIVE Weight(_)
Weight(x) == IF x = 0 THEN 0 ELSE (x % 2) + Weight(x \div 2)

\* The error patterns over the low n bits with at most w bits set.
RECURSIVE ErrorPatterns(_, _)
ErrorPatterns(n, w) ==
    IF w = 0 \/ n = 0 THEN {0}
    ELSE ErrorPatterns(n - 1, w) \cup {e + 2^(n - 1) : e \in ErrorPatterns(n - 1, w - 1)}

InitBCH ==
    /\ call = NoCall
    /\ codec \in {BCH_from_distance(c[1], c[2]) : c \in BCHCodecs}
    /\ message \in 0 .. MaxMessage
    /\ encoded = None
    /\ received = None
    /\ decoded = None

BCHEncode ==
    /\ codec.kind = "BCH"
    /\ encoded = None
    /\ received = None
    /\ encoded' = BCH_encode(codec, message)
    /\ UNCHANGED <<call, codec, message, received, decoded>>

BCHTransmit ==
    /\ codec.kind = "BCH"
    /\ encoded.tag = "Ok"
    /\ received = None
    /\ \E e \in ErrorPatterns(codec.code_length, MaxBitErrors) :
           received' = Word(BitXor(encoded.val, e))
    /\ UNCHANGED <<call, codec, message, encoded, decoded>>

BCHReceive ==
    /\ codec.kind = "BCH"
    /\ encoded = None
    /\ received = None
    /\ message = 0
    /\ \E w \in 0 .. MaxWord : received' = Word(w)
    /\ UNCHANGED <<call, codec, message, encoded, decoded>>

BCHDecode ==
    /\ codec.kind = "BCH"
    /\ received # None
    /\ decoded = None
    /\ decoded' = BCH_decode(codec, received.val)
    /\ UNCHANGED <<call, codec, message, encoded, received>>

NextBCH == BCHEncode \/ BCHTransmit \/ BCHReceive \/ BCHDecode

SpecBCH == InitBCH /\ [][NextBCH]_vars

(***************************************************************************)
(* The Reed-Solomon pipeline: a codec and a message polynomial; encode;    *)
(* the channel overwrites up to t coefficients of the codeword with field  *)
(* elements and the vector is made a polynomial again (the tests take      *)
(* encoded.coeffs(), overwrite, and call Polynomial::new); decode.         *)
(***************************************************************************)
\* The codecs <<M, distance>> of the model.
RSCodecs == {<<3, 1>>, <<3, 3>>}

\* The message polynomials: coefficient vectors as Polynomial::new leaves
\* them, the highest coefficient non-zero.
RSMessages ==
    {m \in UNION {[1 .. n -> 0 .. MaxRSSymbol] : n \in 1 .. MaxRSLen} : m[Len(m)] # 0}

\* The overwrites of at most t of the positions 1..len with elements of GF(2^M).
RSOverwrites(M, len, t) ==
    UNION {[P -> 0 .. (2^M - 1)] : P \in {S \in SUBSET (1 .. len) : Cardinality(S) <= t}}

InitRS ==
    /\ call = NoCall
    /\ codec \in {ReedSolomon(c[1], c[2]) : c \in RSCodecs}
    /\ message \in RSMessages
    /\ encoded = None
    /\ received = None
    /\ decoded = None

RSEncode ==
    /\ codec.kind = "RS"
    /\ encoded = None
    /\ encoded' = Ok(RS_encode(codec, message))
    /\ UNCHANGED <<call, codec, message, received, decoded>>

RSTransmit ==
    /\ codec.kind = "RS"
    /\ encoded # None
    /\ received = None
    /\ \E f \in RSOverwrites(codec.M, Len(encoded.val), RS_max_num_of_errors(codec)) :
           received' = Word(Polynomial_new(
               Vec([i \in 1 .. Len(encoded.val) |->
                       IF i \in DOMAIN f THEN f[i] ELSE encoded.val[i]])))
    /\ UNCHANGED <<call, codec, message, encoded, decoded>>

RSDecode ==
    /\ codec.kind = "RS"
    /\ received # None
    /\ decoded = None
    /\ decoded' = RS_decode(codec, received.val)
    /\ UNCHANGED <<call, codec, message, encoded, received>>

NextRS == RSEncode \/ RSTransmit \/ RSDecode

SpecRS == InitRS /\ [][NextRS]_vars

(***************************************************************************)
(* Reed-Solomon decode on received words that no encode made: a codec and  *)
(* a polynomial of received symbols; decode.                               *)
(***************************************************************************)
\* The codecs <<M, distance>> of the decode calls.
RSWordCodecs == {<<2, 1>>, <<2, 3>>, <<2, 5>>, <<3, 1>>, <<3, 3>>, <<3, 5>>}

\* Received words have 1..MaxRSWordLen symbols.
MaxRSWordLen == 4

\* The received polynomials over GF(2^M): coefficient vectors as
\* Polynomial::new leaves them, with symbols of the field up to MaxRSSymbol.
RSWords(M) ==
    {w \in UNION {[1 .. n -> {x \in 0 .. (2^M - 1) : x <= MaxRSSymbol}] :
                     n \in 1 .. MaxRSWordLen} : w[Len(w)] # 0}

InitRSWords ==
    /\ call = NoCall
    /\ \E c \in RSWordCodecs :
           /\ codec = ReedSolomon(c[1], c[2])
           /\ received \in {Word(w) : w \in RSWords(c[1])}
    /\ message = None
    /\ encoded = None
    /\ decoded = None

NextRSWords == RSDecode

SpecRSWords == InitRSWords /\ [][NextRSWords]_vars

(***************************************************************************)
(* The concatenated pipeline: a codec and a message polynomial; encode;    *)
(* the channel delivers the inner codewords, as they are or with bits of   *)
(* some of them flipped; decode.  SpecCC is the configuration of the       *)
(* decode tests (M = N = 4, outer distance 3, inner distance 7), SpecCC8   *)
(* the configuration of the encode test (M = 8, N = 4, outer distance 5,   *)
(* inner distance 7) with an unaltered channel.                            *)
(***************************************************************************)
CCMessages ==
    {m \in UNION {[1 .. n -> 0 .. MaxCCSymbol] : n \in 1 .. MaxCCLen} : m[Len(m)] # 0}

\* The alterations: a bit pattern, not zero, for each word of a set of words.
CCAlterations(len, n) ==
    UNION {[S -> ErrorPatterns(n, MaxInnerErrors) \ {0}] :
              S \in {T \in SUBSET (1 .. len) : Cardinality(T) \in 1 .. MaxAlteredWords}}

InitCCWith(M, N, outer_distance, inner_distance) ==
    /\ call = NoCall
    /\ codec = ConcatenatedCode(M, N, ReedSolomon(M, outer_distance),
                                BCH_from_distance(N, inner_distance))
    /\ message \in CCMessages
    /\ encoded = None
    /\ received = None
    /\ decoded = None

InitCC == InitCCWith(4, 4, 3, 7)

InitCC8 == InitCCWith(8, 4, 5, 7)

CCEncode ==
    /\ codec.kind = "CC"
    /\ encoded = None
    /\ encoded' = CC_encode(codec, message)
    /\ UNCHANGED <<call, codec, message, received, decoded>>

CCDeliver ==
    /\ codec.kind = "CC"
    /\ encoded.tag = "Ok"
    /\ received = None
    /\ received' = Word(encoded.val)
    /\ UNCHANGED <<call, codec, message, encoded, decoded>>

CCCorrupt ==
    /\ codec.kind = "CC"
    /\ encoded.tag = "Ok"
    /\ received = None
    /\ \E f \in CCAlterations(Len(encoded.val), codec.inner_code.code_length) :
           received' = Word(Vec([i \in 1 .. Len(encoded.val) |->
                                    IF i \in DOMAIN f THEN BitXor(encoded.val[i], f[i])
                                    ELSE encoded.val[i]]))
    /\ UNCHANGED <<call, codec, message, encoded, decoded>>

CCDecode ==
    /\ codec.kind = "CC"
    /\ received # None
    /\ decoded = None
    /\ decoded' = CC_decode(codec, received.val)
    /\ UNCHANGED <<call, codec, message, encoded, received>>

NextCC == CCEncode \/ CCDeliver \/ CCCorrupt \/ CCDecode

SpecCC == InitCC /\ [][NextCC]_vars

NextCC8 == CCEncode \/ CCDeliver \/ CCDecode

SpecCC8 == InitCC8 /\ [][NextCC8]_vars

(***************************************************************************)
(* The GF2TM<M> calls.  A behaviour is one call on elements of GF(2^M):    *)
(* the initial state holds the field and the operands, the action applies  *)
(* the functions and stores what they return.                              *)
(***************************************************************************)
\* The fields GF(2^M) of the calls (the tests use GF2TM::<2>, <3> and <4>).
FieldDegrees == {2, 3, 4}

\* From<u32> is called with the integers 0..MaxInteger.
MaxInteger == 40

\* The elements of GF(2^M) by their bit patterns.
Elements(M) == 0 .. (2^M - 1)

GFCall(fn, M, a, b, c) == [fn |-> fn, M |-> M, a |-> a, b |-> b, c |-> c, out |-> None]

InitGF ==
    /\ call \in UNION {
           {GFCall("field_ops", M, a, b, c) :
               a \in Elements(M), b \in Elements(M), c \in Elements(M)}
           \cup {GFCall(fn, M, a, 0, 0) :
               fn \in {"minimal_poly", "is_primitive", "inv", "new"}, a \in Elements(M)}
           \cup {GFCall("div", M, a, b, 0) : a \in Elements(M), b \in Elements(M)}
           \cup {GFCall("from", M, v, 0, 0) : v \in 0 .. MaxInteger}
           \cup {GFCall("primitive_element", M, 0, 0, 0)}
           : M \in FieldDegrees}
    /\ NoCodec

\* The products, sums, inverse and squares of a, b, c that the field laws
\* relate, each computed with the operators of GF2TM.
FieldOps ==
    /\ call.fn = "field_ops"
    /\ call.out = None
    /\ call' = [call EXCEPT !.out = Ok(
           [ab_c    |-> GF2TM_mul(call.M, GF2TM_mul(call.M, call.a, call.b), call.c),
            a_bc    |-> GF2TM_mul(call.M, call.a, GF2TM_mul(call.M, call.b, call.c)),
            a_bpc   |-> GF2TM_mul(call.M, call.a, GF2TM_add(call.M, call.b, call.c)),
            ab_p_ac |-> GF2TM_add(call.M, GF2TM_mul(call.M, call.a, call.b),
                                  GF2TM_mul(call.M, call.a, call.c)),
            a_inv_a |-> GF2TM_mul(call.M, call.a, GF2TM_inv(call.M, call.a)),
            a2_b2   |-> GF2TM_mul(call.M, GF2TM_pow(call.M, call.a, 2),
                                  GF2TM_pow(call.M, call.b, 2)),
            ab_2    |-> GF2TM_pow(call.M, GF2TM_mul(call.M, call.a, call.b), 2)])]
    /\ UNCHANGED <<codec, message, encoded, received, decoded>>

MinimalPoly ==
    /\ call.fn = "minimal_poly"
    /\ call.out = None
    /\ call' = [call EXCEPT !.out = Ok(GF2TM_minimal_poly(call.M, call.a))]
    /\ UNCHANGED <<codec, message, encoded, received, decoded>>

IsPrimitive ==
    /\ call.fn = "is_primitive"
    /\ call.out = None
    /\ call' = [call EXCEPT !.out = Ok(GF2TM_is_primitive(call.M, call.a))]
    /\ UNCHANGED <<codec, message, encoded, received, decoded>>

PrimitiveElement ==
    /\ call.fn = "primitive_element"
    /\ call.out = None
    /\ call' = [call EXCEPT !.out = GF2TM_primitive_element(call.M)]
    /\ UNCHANGED <<codec, message, encoded, received, decoded>>

GFNew ==
    /\ call.fn = "new"
    /\ call.out = None
    /\ call' = [call EXCEPT !.out = Ok(GF2TM_new(call.M, call.a))]
    /\ UNCHANGED <<codec, message, encoded, received, decoded>>

GFFrom ==
    /\ call.fn = "from"
    /\ call.out = None
    /\ call' = [call EXCEPT !.out = Ok(GF2TM_from(call.M, call.a))]
    /\ UNCHANGED <<codec, message, encoded, received, decoded>>

GFInv ==
    /\ call.fn = "inv"
    /\ call.out = None
    /\ call' = [call EXCEPT !.out = Ok(GF2TM_inv(call.M, call.a))]
    /\ UNCHANGED <<codec, message, encoded, received, decoded>>

GFDiv ==
    /\ call.fn = "div"
    /\ call.out = None
    /\ call' = [call EXCEPT !.out = Ok(GF2TM_div(call.M, call.a, call.b))]
    /\ UNCHANGED <<codec, message, encoded, received, decoded>>

NextGF ==
    \/ FieldOps \/ MinimalPoly \/ IsPrimitive \/ PrimitiveElement
    \/ GFNew \/ GFFrom \/ GFInv \/ GFDiv

SpecGF == InitGF /\ [][NextGF]_vars

(***************************************************************************)
(* The gcd and lcm calls of PolyGF2, one call per behaviour.               *)
(***************************************************************************)
InitLcm ==
    /\ call \in {Pending(fn, a, b) : fn \in {"gcd", "lcm"},
                                     a \in 0 .. MaxPoly, b \in 0 .. MaxPoly}
    /\ NoCodec

Gcd ==
    /\ call.fn = "gcd"
    /\ call.out = None
    /\ call' = [call EXCEPT !.out = Ok(PolyGF2_gcd(call.a, call.b))]
    /\ UNCHANGED <<codec, message, encoded, received, decoded>>

Lcm ==
    /\ call.fn = "lcm"
    /\ call.out = None
    /\ call' = [call EXCEPT !.out = PolyGF2_lcm(call.a, call.b)]
    /\ UNCHANGED <<codec, message, encoded, received, decoded>>

NextLcm == Gcd \/ Lcm

SpecLcm == InitLcm /\ [][NextLcm]_vars

(***************************************************************************)
(* C1.  BCH round-trip without errors: for every codec and every message   *)
(* msg with deg(msg) < k (msg < 2^k), encode(msg) succeeds and             *)
(* decode(encode(msg)) returns exactly msg.                                *)
(***************************************************************************)
BCHRoundTrip ==
    (codec # None /\ codec.kind = "BCH" /\ message < 2^codec.message_length) =>
        /\ (encoded # None => encoded.tag = "Ok")
        /\ (decoded # None /\ encoded # None /\ received = Word(encoded.val)) =>
               decoded = Ok(message)

(***************************************************************************)
(* C2.  BCH correction up to t errors: for BCH<4>.from_distance(7) and     *)
(* msg = 0b11011, every error pattern of Hamming weight <= 3 XOR-ed into   *)
(* encode(msg) still decodes to Ok(msg).                                   *)
(***************************************************************************)
BCHCorrectsTestMessage ==
    (/\ codec # None /\ codec.kind = "BCH"
     /\ codec.M = 4 /\ codec.distance = 7
     /\ message = 27
     /\ encoded # None /\ decoded # None
     /\ Weight(BitXor(received.val, encoded.val)) <= 3) =>
        decoded = Ok(message)

(***************************************************************************)
(* C4.  Concatenated round-trip: for every message, encode(msg) succeeds   *)
(* and, no inner codeword being altered, decode(encode(msg)) returns       *)
(* exactly msg.                                                            *)
(***************************************************************************)
CCRoundTrip ==
    (codec # None /\ codec.kind = "CC") =>
        /\ (encoded # None => encoded.tag = "Ok")
        /\ (decoded # None /\ received = Word(encoded.val)) => decoded = Ok(message)

(***************************************************************************)
(* C5.  Concatenated decode with inner errors: for M = N = 4, outer        *)
(* distance 3 and inner distance 7, if every inner codeword of encode(msg) *)
(* has at most 3 of its 15 bits flipped, decode returns exactly msg.       *)
(***************************************************************************)
CCCorrectsInnerErrors ==
    (/\ codec # None /\ codec.kind = "CC"
     /\ codec.M = 4 /\ codec.N = 4
     /\ codec.outer_code.distance = 3 /\ codec.inner_code.distance = 7
     /\ decoded # None
     /\ Len(received.val) = Len(encoded.val)
     /\ \A i \in 1 .. Len(encoded.val) :
            Weight(BitXor(received.val[i], encoded.val[i])) <= 3) =>
        decoded = Ok(message)

(***************************************************************************)
(* C6.  BCH encode returns the "Message is too long" error exactly when    *)
(* msg >= 2^k, and a codeword for every msg in 0 .. 2^k - 1.               *)
(***************************************************************************)
BCHEncodeTooLongExactly ==
    (codec # None /\ codec.kind = "BCH" /\ encoded # None) =>
        /\ (encoded = Err("Message is too long")) <=> (message >= 2^codec.message_length)
        /\ (message < 2^codec.message_length) => encoded.tag = "Ok"

(***************************************************************************)
(* C7.  BCH decode returns the "wrong length" error exactly when           *)
(* deg(received) + 1 # n, received = 0 included, and for every received    *)
(* word of degree n - 1, whatever its bit errors, it returns a decoded     *)
(* message.  The degree of a non-zero word w is BitLen(w) - 1.             *)
(***************************************************************************)
BCHDecodeWrongLengthExactly ==
    (codec # None /\ codec.kind = "BCH" /\ decoded # None) =>
        LET w == received.val
            n == codec.code_length
            full == (w # 0 /\ BitLen(w) - 1 = n - 1)
        IN  /\ (decoded = Err("Received message has wrong length")) <=> ~full
            /\ full => decoded.tag = "Ok"
            /\ (w = 0) => decoded.tag = "Err"

\* A codeword with three flipped bits below its top bit has been decoded.
BCHDecodeWitness ==
    /\ codec # None /\ codec.kind = "BCH"
    /\ encoded # None /\ encoded.tag = "Ok"
    /\ decoded # None /\ decoded.tag = "Ok"
    /\ Weight(BitXor(received.val, encoded.val)) = 3

(***************************************************************************)
(* C3.  Reed-Solomon correction up to t symbol errors: for a message of k  *)
(* symbols with k + d <= 2^m, overwriting up to t positions of encode(msg) *)
(* with field elements (none included) makes decode return exactly msg.    *)
(***************************************************************************)
RSCorrectsUpToT ==
    (/\ codec # None /\ codec.kind = "RS"
     /\ Len(message) + codec.distance <= 2^codec.M
     /\ decoded # None) =>
        decoded = Ok(message)

(***************************************************************************)
(* C8.  Reed-Solomon encode of a message of k symbols with distance d      *)
(* returns exactly L = k + d symbols, the i-th (i in 0..L-1) being the     *)
(* message polynomial evaluated at the element whose bit pattern is i.     *)
(***************************************************************************)
\* sum of msg[j] * x^(j-1) over j in from..Len(msg)
RECURSIVE PowerSum(_, _, _, _)
PowerSum(M, msg, x, from) ==
    IF from > Len(msg) THEN 0
    ELSE GF2TM_add(M, GF2TM_mul(M, msg[from], GF2TM_pow(M, x, from - 1)),
                   PowerSum(M, msg, x, from + 1))

RSEncodeLengthAndSymbols ==
    (codec # None /\ codec.kind = "RS" /\ encoded # None) =>
        /\ Len(encoded.val) = Len(message) + codec.distance
        /\ \A i \in 0 .. (Len(message) + codec.distance - 1) :
               encoded.val[i + 1] = PowerSum(codec.M, message, i, 1)

(***************************************************************************)
(* C9.  PolyGF2 divmod law: for every a and every b # 0, divmod(a, b) =    *)
(* (q, r) satisfies q*b XOR r = a and deg(r) < deg(b), the zero remainder  *)
(* counting as of lower degree than any non-zero b.                        *)
(***************************************************************************)
DivmodLaw ==
    (call.fn = "divmod" /\ call.out # None /\ call.b # 0) =>
        /\ call.out.tag = "Ok"
        /\ PolyGF2_add(PolyGF2_mul(call.out.q, call.b), call.out.r) = call.a
        /\ (call.out.r = 0 \/ BitLen(call.out.r) < BitLen(call.b))

\* A division with a non-zero quotient and a non-zero remainder has been made.
DivmodWitness ==
    /\ call.fn = "divmod"
    /\ call.b > 1
    /\ call.out.tag = "Ok"
    /\ call.out.q > 1
    /\ call.out.r > 0

(***************************************************************************)
(* C10.  irreducible(d), d in 1..7, is the numerically smallest polynomial *)
(* of degree exactly d with no divisor of degree >= 1 and < d, and the     *)
(* results are 0b10, 0b111, 0b1011, 0b10011, 0b100101, 0b1000011,          *)
(* 0b10000011.  Divisibility is stated by the existence of a cofactor.     *)
(***************************************************************************)
IrreducibleTable == <<2, 7, 11, 19, 37, 67, 131>>

\* p = i * c for some i of degree in 1..d-1 (c then has degree d - deg(i)).
HasProperFactor(p, d) ==
    \E i \in 2 .. (2^d - 1) :
        LET dc == d + 1 - BitLen(i)
        IN  \E c \in 2^dc .. (2^(dc + 1) - 1) : PolyGF2_mul(i, c) = p

IrreducibleSmallest ==
    (call.fn = "irreducible" /\ call.out # None) =>
        LET d == call.a
            p == call.out.val
        IN  /\ p \in 2^d .. (2^(d + 1) - 1)
            /\ ~HasProperFactor(p, d)
            /\ \A s \in 2^d .. (p - 1) : HasProperFactor(s, d)
            /\ (d \in DOMAIN IrreducibleTable => p = IrreducibleTable[d])

\* irreducible(7) has been computed, passing over reducible candidates.
IrreducibleWitness ==
    /\ call.fn = "irreducible"
    /\ call.a = 7
    /\ call.out # None
    /\ call.out.val > 2^7

(***************************************************************************)
(* C11.  Field axioms of GF2TM<m>, m in {2,3,4}: for all elements a, b, c, *)
(* (a*b)*c = a*(b*c), a*(b+c) = a*b + a*c, a * inv(a) = 1 whenever a # 0,  *)
(* and a^2 * b^2 = (a*b)^2.                                                *)
(***************************************************************************)
FieldAxioms ==
    (call.fn = "field_ops" /\ call.out # None) =>
        /\ call.out.val.ab_c = call.out.val.a_bc
        /\ call.out.val.a_bpc = call.out.val.ab_p_ac
        /\ (call.a # 0 => call.out.val.a_inv_a = 1)
        /\ call.out.val.a2_b2 = call.out.val.ab_2

\* The laws have been computed in GF(16) on operands whose products and sums
\* need the reduction by the irreducible polynomial.
FieldAxiomsWitness ==
    /\ call.fn = "field_ops"
    /\ call.M = 4
    /\ call.a = 9 /\ call.b = 14 /\ call.c = 7
    /\ call.out # None
    /\ call.out.val.a_inv_a = 1
    /\ call.out.val.ab_c > 1

(***************************************************************************)
(* C12.  minimal_poly correctness: for every element a of GF(2^m), m in    *)
(* {2,3,4}, minimal_poly(a) is a polynomial over GF(2) that evaluates to   *)
(* zero at a in GF(2^m), and no non-zero GF(2) polynomial of smaller       *)
(* degree has a as a root; for m = 4, 2 -> 0b10011, 3 -> 0b10011,          *)
(* 6 -> 0b111, 12 -> 0b11111.                                              *)
(***************************************************************************)
\* The GF(2) polynomial p (bit i the coefficient of x^i) evaluated at the
\* element a of GF(2^M).
RECURSIVE EvalAt(_, _, _)
EvalAt(M, p, a) ==
    IF p = 0 THEN 0
    ELSE GF2TM_add(M, p % 2, GF2TM_mul(M, a, EvalAt(M, p \div 2, a)))

MinimalPolyExamples == [x \in {2, 3, 6, 12} |->
    IF x = 6 THEN 7 ELSE IF x = 12 THEN 31 ELSE 19]

MinimalPolyCorrect ==
    (call.fn = "minimal_poly" /\ call.out # None) =>
        /\ call.out.val # 0
        /\ EvalAt(call.M, call.out.val, call.a) = 0
        /\ \A q \in 1 .. (2^(BitLen(call.out.val) - 1) - 1) :
               EvalAt(call.M, q, call.a) # 0
        /\ (call.M = 4 /\ call.a \in DOMAIN MinimalPolyExamples) =>
               call.out.val = MinimalPolyExamples[call.a]

\* The minimal polynomial of an element of GF(16) lying in the subfield GF(4)
\* has been computed: two of its four conjugates are distinct.
MinimalPolyWitness ==
    /\ call.fn = "minimal_poly"
    /\ call.M = 4
    /\ call.a = 6
    /\ call.out = Ok(7)

(***************************************************************************)
(* C13.  primitive_element() returns the smallest integer v in [1, 2^m)    *)
(* whose field element has multiplicative order exactly 2^m - 1, and       *)
(* is_primitive(a) is true exactly for the elements a of order 2^m - 1;    *)
(* for m = 2 and m = 3 the result is the element 2.                        *)
(***************************************************************************)
\* a^n = 1 and a^k # 1 for 0 < k < n: the multiplicative order of a is n.
HasOrder(M, a, n) ==
    /\ GF2TM_pow(M, a, n) = 1
    /\ \A k \in 1 .. (n - 1) : GF2TM_pow(M, a, k) # 1

PrimitiveElementSmallest ==
    /\ (call.fn = "is_primitive" /\ call.out # None) =>
           (call.out.val <=> HasOrder(call.M, call.a, 2^call.M - 1))
    /\ (call.fn = "primitive_element" /\ call.out # None) =>
           /\ call.out.tag = "Ok"
           /\ call.out.val \in 1 .. (2^call.M - 1)
           /\ HasOrder(call.M, call.out.val, 2^call.M - 1)
           /\ \A v \in 1 .. (call.out.val - 1) : ~HasOrder(call.M, v, 2^call.M - 1)
           /\ (call.M \in {2, 3} => call.out.val = 2)

\* is_primitive has rejected an element of GF(16) other than 0 and 1: one
\* whose order is a proper divisor of 15.
PrimitiveWitness ==
    /\ call.fn = "is_primitive"
    /\ call.M = 4
    /\ call.a > 1
    /\ call.out = Ok(FALSE)

(***************************************************************************)
(* C14.  Canonical form of GF2TM<m>: every element obtained from a         *)
(* constructor (new, from(integer) for any unsigned integer) or from inv   *)
(* and div on elements has value < 2^m; from(integer) keeps only the low   *)
(* m bits of the integer.                                                  *)
(***************************************************************************)
GFCanonicalForm ==
    (call.fn \in {"new", "from", "inv", "div"} /\ call.out # None) =>
        /\ call.out.val < 2^call.M
        /\ (call.fn = "from" => call.out.val = call.a % 2^call.M)

(***************************************************************************)
(* C15.  lcm(a, b) equals a*b / gcd(a, b) for all non-zero a, b, and       *)
(* lcm(0, b) = 0 for every polynomial b, b = 0 included, without a         *)
(* division-by-zero failure.                                               *)
(***************************************************************************)
LcmConvention ==
    (call.fn = "lcm" /\ call.out # None) =>
        /\ call.out.tag = "Ok"
        /\ (call.a # 0 /\ call.b # 0) =>
               /\ PolyGF2_gcd(call.a, call.b) # 0
               /\ call.out.val = PolyGF2_div(PolyGF2_mul(call.a, call.b),
                                             PolyGF2_gcd(call.a, call.b))
        /\ (call.a = 0 => call.out.val = 0)

(***************************************************************************)
(* C16.  The inverse of the zero element of GF(2^m), and hence a / 0, is   *)
(* reported as a division-by-zero failure and returns no field element.    *)
(***************************************************************************)
InvZeroFails ==
    /\ (call.fn = "inv" /\ call.a = 0 /\ call.out # None) => call.out.tag # "Ok"
    /\ (call.fn = "div" /\ call.b = 0 /\ call.out # None) => call.out.tag # "Ok"

(***************************************************************************)
(* C17.  Every word returned by BCH encode is a systematic codeword: for   *)
(* every accepted message msg, encode(msg) leaves remainder 0 on division  *)
(* by the generator polynomial, its top deg(msg)+1 bits (bit n-1 down to   *)
(* bit n-1-deg(msg)) are msg, its degree is exactly n - 1, and it passes   *)
(* the length check of decode.                                             *)
(***************************************************************************)
BCHEncodeSystematic ==
    (codec # None /\ codec.kind = "BCH" /\ encoded # None /\ encoded.tag = "Ok") =>
        /\ PolyGF2_rem(encoded.val, codec.generator_poly) = 0
        /\ message > 0
        /\ Shr(encoded.val, codec.code_length - BitLen(message)) = message
        /\ BitLen(encoded.val) = codec.code_length
        /\ ~BCH_wrong_length(codec, encoded.val)

\* BCH<4>(7) has encoded the test message 0b11011 with non-zero parity bits.
BCHEncodeWitness ==
    /\ codec # None /\ codec.kind = "BCH"
    /\ codec.M = 4 /\ codec.distance = 7
    /\ message = 27
    /\ encoded = Ok(28180)
    /\ received = None

(***************************************************************************)
(* C18.  Reed-Solomon decode's search for the error count terminates: for  *)
(* every received word of length N with t <= N <= 2^m, starting from e = t *)
(* and decrementing e whenever det(A) = 0, the loop reaches a non-singular *)
(* N x N system for some e in 0..t, so e never goes below 0 and a result   *)
(* is returned.                                                            *)
(***************************************************************************)
RSDecodeTerminates ==
    (/\ codec # None /\ codec.kind = "RS"
     /\ received # None /\ decoded # None
     /\ RS_max_num_of_errors(codec) <= Len(received.val)
     /\ Len(received.val) <= 2^codec.M) =>
        /\ \E e \in 0 .. RS_max_num_of_errors(codec) :
               Matrix_determinant(codec.M,
                   RS_create_linear_system_with_err_num(codec, e, received.val).lhs)
                   # GF2TM_zero
        /\ decoded.tag = "Ok"

\* decode has returned a result after the system for e = t = 2 was singular.
RSDecodeRetryWitness ==
    /\ codec # None /\ codec.kind = "RS" /\ codec.distance = 5
    /\ received # None /\ Len(received.val) = 4
    /\ Matrix_determinant(codec.M,
           RS_create_linear_system_with_err_num(codec, 2, received.val).lhs) = GF2TM_zero
    /\ decoded # None /\ decoded.tag = "Ok"

====
